---- MODULE Spec2Model ----
(***************************************************************************)
(* Model of the IoT soil-monitoring edge agent.                            *)
(*                                                                         *)
(*   MainController  the fixed-interval loop, the direct send and the      *)
(*                   drain of the offline store (sync_offline_data)        *)
(*   NetworkManager  the cached connectivity verdicts                      *)
(*   SensorReader    the assignment state and the serial exchange          *)
(*   GatewayLogger   the classification of the collector's answers         *)
(*   OfflineLogger   the CSV file that is the durable queue                *)
(*                                                                         *)
(* Time is time.time() in seconds.  One step of the loop is one action;    *)
(* the time the blocking calls of one cycle take is not modelled, so every *)
(* time.time() of one cycle reads the same value, now.                     *)
(***************************************************************************)
EXTENDS Integers, Sequences, FiniteSets, TLC

\* ------------------------------------------------------------ constants

\* Config.py
MEASUREMENT_INTERVAL == 300
ASSIGNMENT_CHECK_INTERVAL == 14400
MAX_RETRY_ATTEMPTS == 3
RESPONSE_LENGTH == 19
\* Config.MODBUS_COMMAND
MODBUS_COMMAND == <<1, 3, 0, 0, 0, 7, 4, 8>>
\* SensorReader._crc16_modbus: 0xFFFF and 0xA001
CRC_INIT == 65535
CRC_POLY == 40961
\* NetworkManager.check_all_connectivity: "every 5 minutes max"
CONNECTIVITY_TTL == 300
\* MainController.sync_offline_data: "every 15 minutes max"
SYNC_INTERVAL == 900

\* Config.MAX_OFFLINE_RECORDS (1000 in Config.py) and the batch_size that
\* sync_offline_data passes to load_batch (20), bounded for the exploration;
\* a batch is smaller than the capacity, as in the program.
MAX_OFFLINE_RECORDS == 3
BATCH_SIZE == 2

\* Bounds of the exploration.
MaxCycles == 2
MaxBoots == 2
MaxSaves == 4
MaxTicks == 6
MaxPolls == 2
MaxRuns == 2
MaxLive == 4
MaxCloses == 2

\* The time of the first process start.  The timestamps that the
\* constructors set to 0 are older than every interval at T0.
T0 == ASSIGNMENT_CHECK_INTERVAL

\* Time from one cycle start to the next: MEASUREMENT_INTERVAL when the work
\* of the cycle took less than that (run sleeps for the rest), longer when the
\* cycle blocked, the process was suspended or the wall clock stepped forward.
CycleSpans == {MEASUREMENT_INTERVAL, ASSIGNMENT_CHECK_INTERVAL}

\* ------------------------------------------------------------ values

None == "None"
NaN == "NaN"
Empty == ""

\* What an HTTP exchange can end with: a status code or a requests exception.
Statuses == {"200", "202", "403", "503", "500", "ConnectionError", "Timeout"}
\* The answers drawn for the records of a drain that the collector does not
\* accept: the rejection and one transient failure.
DrainFailures == {"403", "500"}

\* The assignment service not followed, and no poll made on its own.
NoService == "any"
NoWire == [command |-> <<>>, frame |-> <<>>, reading |-> <<>>]

VARIABLES
    controller,   \* MainController: running, cycles_completed, data_points_collected, last_sync_time
    network,      \* NetworkManager: last_internet_check and the three verdicts
    sensor,       \* SensorReader: serial_conn, is_assigned, farm, zone, last_assignment_check
    file,         \* the rows of Config.OFFLINE_STORAGE, oldest first; <<>> when there is no file
    phase,        \* "loop": run() is in its while loop; "stopped": shutdown() has run
    now,          \* time.time()
    collector,    \* timestamps of the readings the collector has accepted
    obs,          \* what the last cycle did on the serial link, the network and the store
    last_drain,   \* when this process last sent queued entries (0: not yet)
    cycle_no,     \* cycles run since T0, over all process instances
    boots,        \* process instances started
    api,          \* the last call made on an object on its own: the call, its
                  \* argument, how its file operation and the call ended, what
                  \* it was given or returned, and the rows in the file before it
    service,      \* what the assignment service holds for this device, where a
                  \* run follows it (NoService: it may answer anything)
    wire          \* the bytes the sensor put on the serial link for the last
                  \* poll made on its own, and what the poll returned

vars == <<controller, network, sensor, file, phase, now, collector, obs,
          last_drain, cycle_no, boots, api, service, wire>>

\* ------------------------------------------------------------ OfflineLogger

\* pandas: DataFrame.to_csv writes a missing value (None, NaN) as an empty
\* field, and read_csv reads an empty field back as NaN.
to_csv_value(v) == IF v \in {None, NaN} THEN Empty ELSE v
read_csv_value(v) == IF v = Empty THEN NaN ELSE v

to_csv_row(d) ==
    [timestamp |-> d.timestamp,
     farm_id |-> to_csv_value(d.farm_id),
     zone_code |-> to_csv_value(d.zone_code)]

read_csv_row(r) ==
    [timestamp |-> r.timestamp,
     farm_id |-> read_csv_value(r.farm_id),
     zone_code |-> read_csv_value(r.zone_code)]

to_csv(df) == [i \in 1..Len(df) |-> to_csv_row(df[i])]
read_csv(f) == [i \in 1..Len(f) |-> read_csv_row(f[i])]

\* DataFrame.head(n), DataFrame.tail(n) and DataFrame.iloc[n:]
head(df, n) == SubSeq(df, 1, IF n < Len(df) THEN n ELSE Len(df))
tail(df, n) == SubSeq(df, IF n < Len(df) THEN Len(df) - n + 1 ELSE 1, Len(df))
iloc_from(df, n) == SubSeq(df, n + 1, Len(df))

\* What a file operation of the store ends with: "ok", or "fail" when pandas
\* or os raises (the file cannot be opened: unreadable, read-only).  A failed
\* operation leaves the file as it was.
IoOutcomes == {"ok", "fail"}

\* OfflineLogger.__init__ starting from an empty file.
OfflineLogger_init_truncating(f) == <<>>

\* OfflineLogger.__init__: the file after the call (it makes sure that the
\* directory exists, and neither opens nor writes the file).
OfflineLogger_init(f) == f

\* save with head in place of tail: at capacity it keeps the oldest rows.
save_head(f, data, io) ==
    IF io = "fail"
    THEN [file |-> f, ok |-> FALSE]
    ELSE IF f # <<>>
         THEN [file |-> to_csv(head(read_csv(f) \o <<data>>, MAX_OFFLINE_RECORDS)),
               ok |-> TRUE]
         ELSE [file |-> to_csv(<<data>>), ok |-> TRUE]

\* save leaving an empty file behind when it fails.
save_truncating(f, data, io) ==
    IF io = "fail"
    THEN [file |-> <<>>, ok |-> FALSE]
    ELSE IF f # <<>>
         THEN [file |-> to_csv(tail(read_csv(f) \o <<data>>, MAX_OFFLINE_RECORDS)),
               ok |-> TRUE]
         ELSE [file |-> to_csv(<<data>>), ok |-> TRUE]

\* OfflineLogger.save: the file after the call and the value returned.
save(f, data, io) ==
    IF io = "fail"
    THEN [file |-> f, ok |-> FALSE]
    ELSE LET df_new == <<data>>
             df_combined ==
                 IF f # <<>>
                 THEN LET both == read_csv(f) \o df_new
                      IN  IF Len(both) > MAX_OFFLINE_RECORDS
                          THEN tail(both, MAX_OFFLINE_RECORDS)
                          ELSE both
                 ELSE df_new
         IN  [file |-> to_csv(df_combined), ok |-> TRUE]

\* load_batch with tail in place of head: it returns the newest rows.
load_batch_newest(f, batch_size, io) ==
    IF io = "fail" THEN <<>> ELSE tail(read_csv(f), batch_size)

\* OfflineLogger.load_batch: the DataFrame returned (<<>>: an empty one).
load_batch(f, batch_size, io) ==
    IF io = "fail"
    THEN <<>>
    ELSE IF f # <<>> /\ Len(read_csv(f)) > 0
         THEN head(read_csv(f), batch_size)
         ELSE <<>>

\* remove_synced with iloc[:-count] in place of iloc[count:]: it removes the
\* newest rows.
remove_synced_newest(f, count, io) ==
    IF f = <<>> \/ io = "fail"
    THEN [file |-> f, ok |-> f = <<>>]
    ELSE [file |-> to_csv(head(read_csv(f), Len(f) - (IF count < Len(f) THEN count ELSE Len(f)))),
          ok |-> TRUE]

\* remove_synced with iloc[count + 1:] in place of iloc[count:]: it removes
\* one row more than it was asked to.
remove_synced_one_more(f, count, io) ==
    IF f = <<>> \/ io = "fail"
    THEN [file |-> f, ok |-> f = <<>>]
    ELSE [file |-> IF count >= Len(f) THEN <<>>
                   ELSE to_csv(iloc_from(read_csv(f), count + 1)),
          ok |-> TRUE]

\* OfflineLogger.remove_synced: the file after the call and the value returned.
remove_synced(f, count, io) ==
    IF f = <<>>
    THEN [file |-> f, ok |-> TRUE]
    ELSE IF io = "fail"
         THEN [file |-> f, ok |-> FALSE]
         ELSE LET df == read_csv(f)
              IN  IF count >= Len(df)
                  THEN [file |-> <<>>, ok |-> TRUE]
                  ELSE [file |-> to_csv(iloc_from(df, count)), ok |-> TRUE]

\* ------------------------------------------------------------ GatewayLogger

\* send_to_gateway taking only a 200 for a delivery.
send_to_gateway_strict(status) == status = "200"

\* GatewayLogger.send_to_gateway: the value returned for each answer (a status
\* code whose branch runs to its return, or the exception raised).
send_to_gateway(status) ==
    CASE status = "200" -> TRUE
      [] status = "202" -> TRUE
      [] status = "403" -> FALSE
      [] status = "503" -> TRUE
      [] OTHER -> FALSE

\* ------------------------------------------------------------ NetworkManager

\* What the three hosts answer during one connectivity check: the Database
\* Pi, the Gateway Pi (the collector) and www.google.com.
Hosts == [db : BOOLEAN, gw : BOOLEAN, www : BOOLEAN]
NoHosts == [db |-> FALSE, gw |-> FALSE, www |-> FALSE]
\* The hosts drawn for the agent: of the three verdicts its cycle reads only
\* the collector's (the others are logged), so only the collector's varies.
AgentHosts == {h \in Hosts : h.db /\ ~h.www}

\* Config.INTERNET_TEST_URLS, by host.
INTERNET_TEST_URLS == <<"db", "gw", "www">>

RECURSIVE check_internet_from(_, _)
\* NetworkManager.check_internet, from the i-th test URL on: the verdict and
\* the hosts requested, in order.
check_internet_from(i, hosts) ==
    IF i > Len(INTERNET_TEST_URLS)
    THEN [available |-> FALSE, requested |-> <<>>]
    ELSE LET url == INTERNET_TEST_URLS[i]
         IN  IF hosts[url]
             THEN [available |-> TRUE, requested |-> <<url>>]
             ELSE LET rest == check_internet_from(i + 1, hosts)
                  IN  [available |-> rest.available,
                       requested |-> <<url>> \o rest.requested]

check_internet(hosts) == check_internet_from(1, hosts)

\* NetworkManager.check_db_pi and check_gateway_pi: one GET each, 200 or not.
check_db_pi(hosts) == hosts.db
check_gateway_pi(hosts) == hosts.gw

\* How many of the requests went to the host.
RECURSIVE CountOf(_, _)
CountOf(seq, x) ==
    IF seq = <<>> THEN 0
    ELSE (IF Head(seq) = x THEN 1 ELSE 0) + CountOf(Tail(seq), x)

\* check_all_connectivity without its cache: every call probes.
check_all_connectivity_uncached(net, force, current_time, hosts) ==
    [net |-> [last_internet_check |-> current_time,
              internet_available |-> check_internet(hosts).available,
              db_pi_available |-> check_db_pi(hosts),
              gateway_pi_available |-> check_gateway_pi(hosts)],
     gateway_pi |-> check_gateway_pi(hosts),
     fresh |-> TRUE,
     requested |-> check_internet(hosts).requested \o <<"db", "gw">>]

\* NetworkManager.check_all_connectivity: the object after the call, the
\* dict returned, and the requests the call made.
check_all_connectivity(net, force, current_time, hosts) ==
    IF ~force /\ current_time - net.last_internet_check < CONNECTIVITY_TTL
    THEN [net |-> net,
          gateway_pi |-> net.gateway_pi_available,
          fresh |-> FALSE,
          requested |-> <<>>]
    ELSE LET inet == check_internet(hosts)
         IN  [net |-> [last_internet_check |-> current_time,
                       internet_available |-> inet.available,
                       db_pi_available |-> check_db_pi(hosts),
                       gateway_pi_available |-> check_gateway_pi(hosts)],
              gateway_pi |-> check_gateway_pi(hosts),
              fresh |-> TRUE,
              requested |-> inet.requested \o <<"db", "gw">>]

\* NetworkManager.can_reach_gateway_pi
can_reach_gateway_pi(net) == net.gateway_pi_available

\* NetworkManager.__init__
NetworkManager_init == 
    [last_internet_check |-> 0,
     internet_available |-> FALSE,
     db_pi_available |-> FALSE,
     gateway_pi_available |-> FALSE]

\* ------------------------------------------------------------ SensorReader

\* The JSON body of a 200 answer of the assignment service: with or without
\* the key 'assigned', and with or without farm_id and zone_code.
AssignData ==
    {[has_assigned |-> TRUE, assigned |-> TRUE, farm_id |-> "F1", zone_code |-> "Z1"],
     [has_assigned |-> TRUE, assigned |-> FALSE, farm_id |-> None, zone_code |-> None],
     [has_assigned |-> FALSE, assigned |-> FALSE, farm_id |-> None, zone_code |-> None]}
NoData == [has_assigned |-> FALSE, assigned |-> FALSE, farm_id |-> None, zone_code |-> None]

\* What one assignment check gets: the answer of the Gateway Pi, and the
\* answer of the Database Pi when the Gateway Pi did not answer 200.
AssignAnswers ==
    {[gw |-> "200", db |-> "none", data |-> d] : d \in AssignData}
    \cup {[gw |-> g, db |-> "200", data |-> d] :
              g \in {"404", "500", "RequestException"}, d \in AssignData}
    \cup {[gw |-> g, db |-> b, data |-> NoData] :
              g \in {"404", "500", "RequestException"},
              b \in {"404", "500", "ConnectionError", "Timeout"}}
NoAnswer == [gw |-> "none", db |-> "none", data |-> NoData]

\* SensorReader.handle_assignment_response
handle_assignment_response(s, data) ==
    IF data.has_assigned
    THEN IF data.assigned
         THEN [s EXCEPT !.is_assigned = TRUE,
                        !.assigned_farm_id = data.farm_id,
                        !.assigned_zone_code = data.zone_code]
         ELSE [s EXCEPT !.is_assigned = FALSE,
                        !.assigned_farm_id = None,
                        !.assigned_zone_code = None]
    ELSE s

\* An answered check without "self.last_assignment_check = current_time".
assignment_answered_unstamped(s1, current_time) ==
    [sensor |-> s1, result |-> s1.is_assigned, queried |-> TRUE]

\* The three ways check_assignment_status returns: an answer that was
\* handled, and a check that left the state alone (cached, or failed).
assignment_answered(s1, current_time) ==
    [sensor |-> [s1 EXCEPT !.last_assignment_check = current_time],
     result |-> s1.is_assigned, queried |-> TRUE]
assignment_kept(s, queried) ==
    [sensor |-> s, result |-> s.is_assigned, queried |-> queried]

\* check_assignment_status without its interval: every call asks the service.
check_assignment_status_unthrottled(s, force, current_time, ans) ==
    IF ans.gw = "200" \/ ans.db = "200"
    THEN assignment_answered(handle_assignment_response(s, ans.data), current_time)
    ELSE IF ans.db = "404"
         THEN assignment_answered([s EXCEPT !.is_assigned = FALSE], current_time)
         ELSE assignment_kept(s, TRUE)

\* check_assignment_status taking a check that failed for "not assigned".
check_assignment_status_resetting(s, force, current_time, ans) ==
    IF ~force /\ current_time - s.last_assignment_check < ASSIGNMENT_CHECK_INTERVAL
    THEN assignment_kept(s, FALSE)
    ELSE IF ans.gw = "200" \/ ans.db = "200"
         THEN assignment_answered(handle_assignment_response(s, ans.data), current_time)
         ELSE IF ans.db = "404"
              THEN assignment_answered([s EXCEPT !.is_assigned = FALSE], current_time)
              ELSE assignment_kept([s EXCEPT !.is_assigned = FALSE], TRUE)

\* SensorReader.check_assignment_status: the object after the call, the value
\* returned, and whether the service was queried.
check_assignment_status(s, force, current_time, ans) ==
    IF ~force /\ current_time - s.last_assignment_check < ASSIGNMENT_CHECK_INTERVAL
    THEN assignment_kept(s, FALSE)
    ELSE IF ans.gw = "200"
         THEN assignment_answered(handle_assignment_response(s, ans.data), current_time)
         ELSE CASE ans.db = "200" ->
                       assignment_answered(handle_assignment_response(s, ans.data),
                                           current_time)
                [] ans.db = "404" ->
                       assignment_answered([s EXCEPT !.is_assigned = FALSE], current_time)
                [] OTHER ->
                       assignment_kept(s, TRUE)

\* What the attempts to open the serial port end with, one per attempt.
OpenOutcomes == {"open", "SerialException"}
\* Nothing is read of the outcomes after the first "open".
OpenSeqs ==
    {[i \in 1..MAX_RETRY_ATTEMPTS |-> IF i <= k THEN "SerialException" ELSE "open"] :
         k \in 0..MAX_RETRY_ATTEMPTS}
NoOpens == [i \in 1..MAX_RETRY_ATTEMPTS |-> "open"]

RECURSIVE initialize_serial_from(_, _, _)
\* SensorReader.initialize_serial, from the given attempt (0-based) on: the
\* object after the call, the value returned, and the attempts made.
initialize_serial_from(s, attempt, opens) ==
    IF attempt >= MAX_RETRY_ATTEMPTS
    THEN [sensor |-> s, ok |-> FALSE, attempts |-> attempt]
    ELSE IF opens[attempt + 1] = "open"
         THEN [sensor |-> [s EXCEPT !.serial_conn = "open"],
               ok |-> TRUE, attempts |-> attempt + 1]
         ELSE IF attempt < MAX_RETRY_ATTEMPTS - 1
              THEN initialize_serial_from(s, attempt + 1, opens)
              ELSE [sensor |-> [s EXCEPT !.serial_conn = None],
                    ok |-> FALSE, attempts |-> attempt + 1]

\* initialize_serial without "self.serial_conn = None" where it gives up: the
\* object keeps a handle that is not open.
initialize_serial_holding(s, opens) ==
    IF initialize_serial_from(s, 0, opens).ok
    THEN initialize_serial_from(s, 0, opens)
    ELSE [initialize_serial_from(s, 0, opens) EXCEPT !.sensor.serial_conn = "closed"]

initialize_serial(s, opens) == initialize_serial_from(s, 0, opens)

\* a ^ b on non-negative integers.
Xor[a \in Nat, b \in Nat] ==
    IF a = 0 THEN b
    ELSE IF b = 0 THEN a
         ELSE ((a + b) % 2) + 2 * Xor[a \div 2, b \div 2]

\* The inner loop of _crc16_modbus, n more times.
crc_shift[crc \in Nat, n \in Nat] ==
    IF n = 0
    THEN crc
    ELSE crc_shift[IF crc % 2 = 1 THEN Xor[crc \div 2, CRC_POLY] ELSE crc \div 2, n - 1]

\* The outer loop of _crc16_modbus over the first n bytes.
crc_upto[data \in Seq(Nat), n \in Nat] ==
    IF n = 0
    THEN CRC_INIT
    ELSE crc_shift[Xor[crc_upto[data, n - 1], data[n]], 8]

\* int.to_bytes(2, byteorder='little')
to_bytes_little(n) == <<n % 256, n \div 256>>

\* _crc16_modbus returning the bytes high byte first.
crc16_modbus_big(data) ==
    <<crc_upto[data, Len(data)] \div 256, crc_upto[data, Len(data)] % 256>>

\* SensorReader._crc16_modbus
crc16_modbus(data) == to_bytes_little(crc_upto[data, Len(data)])

\* int.from_bytes(bytes, 'big')
RECURSIVE from_bytes_big(_)
from_bytes_big(bytes) ==
    IF bytes = <<>>
    THEN 0
    ELSE from_bytes_big(SubSeq(bytes, 1, Len(bytes) - 1)) * 256 + bytes[Len(bytes)]

\* n / 10 for an int n: a float with one decimal, as its whole part and its
\* tenths.
div10(n) == [whole |-> n \div 10, tenths |-> n % 10]

\* response[a:b] of Python, for 0 <= a <= b.
slice(response, a, b) == SubSeq(response, a + 1, b)

\* The measurements with the two bytes of each register taken low byte first.
measurements_little(response) ==
    [moisture |-> div10(response[4] + 256 * response[5]),
     temperature |-> div10(response[6] + 256 * response[7]),
     conductivity |-> div10(response[8] + 256 * response[9]),
     ph |-> div10(response[10] + 256 * response[11]),
     nitrogen |-> div10(response[12] + 256 * response[13]),
     phosphorus |-> div10(response[14] + 256 * response[15]),
     potassium |-> div10(response[16] + 256 * response[17])]

\* The measurements of the sensor_data dict that read_sensor_data builds.
measurements(response) ==
    [moisture |-> div10(from_bytes_big(slice(response, 3, 5))),
     temperature |-> div10(from_bytes_big(slice(response, 5, 7))),
     conductivity |-> div10(from_bytes_big(slice(response, 7, 9))),
     ph |-> div10(from_bytes_big(slice(response, 9, 11))),
     nitrogen |-> div10(from_bytes_big(slice(response, 11, 13))),
     phosphorus |-> div10(from_bytes_big(slice(response, 13, 15))),
     potassium |-> div10(from_bytes_big(slice(response, 15, 17)))]

\* read_sensor_data: "expected_crc != calculated_crc" is false for the response.
crc_matches(response) ==
    slice(response, Len(response) - 2, Len(response))
        = crc16_modbus(slice(response, 0, Len(response) - 2))

\* One exchange on the serial link: whether write or read raises a
\* SerialException, the bytes the first read returns, the bytes a second read
\* returns, and whether the trailer of the assembled frame is its CRC.
Exchanges ==
    {[fault |-> f, n1 |-> 0, n2 |-> 0, crc_ok |-> FALSE] : f \in {"write", "read"}}
    \cup {[fault |-> "none", n1 |-> RESPONSE_LENGTH, n2 |-> 0, crc_ok |-> c] :
              c \in BOOLEAN}
    \cup {[fault |-> "none", n1 |-> n, n2 |-> 0, crc_ok |-> FALSE] :
              n \in {0, RESPONSE_LENGTH \div 2}}
    \cup {[fault |-> "none", n1 |-> n, n2 |-> RESPONSE_LENGTH - n, crc_ok |-> c] :
              n \in {0, RESPONSE_LENGTH \div 2}, c \in BOOLEAN}
NoExchange == [fault |-> "none", n1 |-> 0, n2 |-> 0, crc_ok |-> FALSE]

\* The sensor_data dict that read_sensor_data builds (its measurements left out).
sensor_data(s, current_time) ==
    [timestamp |-> current_time,
     farm_id |-> s.assigned_farm_id,
     zone_code |-> s.assigned_zone_code]

\* read_sensor_data returns None.
no_reading(chk, s2, writes) ==
    [sensor |-> s2, data |-> <<>>, assigned |-> chk.result,
     queried |-> chk.queried, writes |-> writes]

\* read_sensor_data without its "CRC Check".
read_exchange_unchecked(chk, s1, current_time, x) ==
    IF x.fault \in {"write", "read"}
    THEN no_reading(chk, [s1 EXCEPT !.serial_conn = None], 1)
    ELSE IF (IF x.n1 < RESPONSE_LENGTH THEN x.n1 + x.n2 ELSE x.n1) # RESPONSE_LENGTH
         THEN no_reading(chk, s1, 1)
         ELSE [sensor |-> s1,
               data |-> <<sensor_data(s1, current_time)>>,
               assigned |-> chk.result,
               queried |-> chk.queried,
               writes |-> 1]

\* read_sensor_data without "self.serial_conn = None" in its handler of
\* SerialException.
read_exchange_keeping(chk, s1, current_time, x) ==
    IF x.fault \in {"write", "read"}
       \/ (IF x.n1 < RESPONSE_LENGTH THEN x.n1 + x.n2 ELSE x.n1) # RESPONSE_LENGTH
       \/ ~x.crc_ok
    THEN no_reading(chk, s1, 1)
    ELSE [sensor |-> s1,
          data |-> <<sensor_data(s1, current_time)>>,
          assigned |-> chk.result,
          queried |-> chk.queried,
          writes |-> 1]

\* read_sensor_data with "self.serial_conn = None" also where it gives up on
\* the length of the response.
read_exchange_resetting(chk, s1, current_time, x) ==
    IF x.fault \in {"write", "read"}
       \/ (IF x.n1 < RESPONSE_LENGTH THEN x.n1 + x.n2 ELSE x.n1) # RESPONSE_LENGTH
    THEN no_reading(chk, [s1 EXCEPT !.serial_conn = None], 1)
    ELSE IF ~x.crc_ok
         THEN no_reading(chk, s1, 1)
         ELSE [sensor |-> s1,
               data |-> <<sensor_data(s1, current_time)>>,
               assigned |-> chk.result,
               queried |-> chk.queried,
               writes |-> 1]

\* read_sensor_data from the write of the command on (its try block).
read_exchange(chk, s1, current_time, x) ==
    IF x.fault \in {"write", "read"}
    THEN no_reading(chk, [s1 EXCEPT !.serial_conn = None], 1)
    ELSE IF (IF x.n1 < RESPONSE_LENGTH THEN x.n1 + x.n2 ELSE x.n1) # RESPONSE_LENGTH
         THEN no_reading(chk, s1, 1)
         ELSE IF ~x.crc_ok
              THEN no_reading(chk, s1, 1)
              ELSE [sensor |-> s1,
                    data |-> <<sensor_data(s1, current_time)>>,
                    assigned |-> chk.result,
                    queried |-> chk.queried,
                    writes |-> 1]

\* read_sensor_data after "if not self.serial_conn: initialize_serial()".
read_connected(chk, init, current_time, x) ==
    IF ~init.ok
    THEN no_reading(chk, init.sensor, 0)
    ELSE read_exchange(chk, init.sensor, current_time, x)

\* read_sensor_data without "if not self.check_assignment_status(): return None".
read_checked_ungated(chk, current_time, opens, x) ==
    read_connected(chk,
                   IF chk.sensor.serial_conn = None
                   THEN initialize_serial(chk.sensor, opens)
                   ELSE [sensor |-> chk.sensor, ok |-> TRUE, attempts |-> 0],
                   current_time, x)

\* read_sensor_data after its assignment check.
read_checked(chk, current_time, opens, x) ==
    IF ~chk.result
    THEN no_reading(chk, chk.sensor, 0)
    ELSE read_connected(chk,
                        IF chk.sensor.serial_conn = None
                        THEN initialize_serial(chk.sensor, opens)
                        ELSE [sensor |-> chk.sensor, ok |-> TRUE, attempts |-> 0],
                        current_time, x)

\* SensorReader.read_sensor_data: the object after the call, the dict returned
\* (<<>>: None), the value and the query of its assignment check, and the
\* command writes it made on the serial link.
read_sensor_data(s, current_time, ans, opens, x) ==
    read_checked(check_assignment_status(s, FALSE, current_time, ans),
                 current_time, opens, x)

\* close that drops a handle it finds closed.
close_dropping(s) ==
    IF s.serial_conn = "open" THEN [s EXCEPT !.serial_conn = "closed"]
    ELSE [s EXCEPT !.serial_conn = None]

\* SensorReader.close
close(s) ==
    IF s.serial_conn = "open" THEN [s EXCEPT !.serial_conn = "closed"] ELSE s

\* SensorReader.__init__: the fields, then initialize_serial, register_sensor
\* (which changes no field) and check_assignment_status(force=True).
SensorReader_init(current_time, opens, ans) ==
    check_assignment_status(
        initialize_serial([serial_conn |-> None,
                           is_assigned |-> FALSE,
                           assigned_farm_id |-> None,
                           assigned_zone_code |-> None,
                           last_assignment_check |-> 0], opens).sensor,
        TRUE, current_time, ans).sensor

\* ------------------------------------------------------------ MainController

RECURSIVE send_batch_continue(_, _, _)
\* The for loop of sync_offline_data without its break.
send_batch_continue(batch, i, answers) ==
    IF i > Len(batch)
    THEN <<>>
    ELSE <<[timestamp |-> batch[i].timestamp, status |-> answers[i]]>>
         \o send_batch_continue(batch, i + 1, answers)

RECURSIVE send_batch(_, _, _)
\* The for loop of sync_offline_data from the i-th record of the batch on:
\* the records sent, each with the collector's answer, up to and including
\* the first one for which send_to_gateway returns False.
send_batch(batch, i, answers) ==
    IF i > Len(batch)
    THEN <<>>
    ELSE LET sent == [timestamp |-> batch[i].timestamp, status |-> answers[i]]
         IN  IF send_to_gateway(answers[i])
             THEN <<sent>> \o send_batch(batch, i + 1, answers)
             ELSE <<sent>>

\* successful_syncs counting also the record that the collector refused
\* with 403.
successful_syncs_with_refused(sent) ==
    Cardinality({i \in 1..Len(sent) :
                    send_to_gateway(sent[i].status) \/ sent[i].status = "403"})

\* successful_syncs of sync_offline_data
successful_syncs(sent) ==
    Cardinality({i \in 1..Len(sent) : send_to_gateway(sent[i].status)})

\* sync_offline_data returns before its for loop.
sync_skipped(ctl, f, result, peeked) ==
    [last_sync_time |-> ctl.last_sync_time, file |-> f, result |-> result,
     peeked |-> peeked, drained |-> <<>>, removed |-> "none"]

\* sync_offline_data after its for loop, with the records sent, their count
\* of successes n, and its remove_synced.
sync_sent(ctl, f, current_time, sent, n, rem) ==
    IF n > 0
    THEN [last_sync_time |-> current_time, file |-> rem.file, result |-> TRUE,
          peeked |-> TRUE, drained |-> sent,
          removed |-> IF rem.ok THEN "ok" ELSE "fail"]
    ELSE [last_sync_time |-> ctl.last_sync_time, file |-> f, result |-> FALSE,
          peeked |-> TRUE, drained |-> sent, removed |-> "none"]

\* sync_offline_data removing one record less than it counted.
sync_send_short(ctl, f, current_time, sent, io_remove) ==
    sync_sent(ctl, f, current_time, sent, successful_syncs(sent),
              remove_synced(f, successful_syncs(sent) - 1, io_remove))

sync_send(ctl, f, current_time, sent, io_remove) ==
    sync_sent(ctl, f, current_time, sent, successful_syncs(sent),
              remove_synced(f, successful_syncs(sent), io_remove))

\* sync_offline_data sending nothing of the batch it loaded.
sync_batch_idle(ctl, f, current_time, offline_batch, answers, io_remove) ==
    sync_skipped(ctl, f, TRUE, TRUE)

\* sync_offline_data after load_batch.
sync_batch(ctl, f, current_time, offline_batch, answers, io_remove) ==
    IF offline_batch = <<>>
    THEN sync_skipped(ctl, f, TRUE, TRUE)
    ELSE sync_send(ctl, f, current_time, send_batch(offline_batch, 1, answers), io_remove)

\* MainController.sync_offline_data: last_sync_time and the file after the
\* call, the value returned, and what the call did: whether it loaded a
\* batch, the records it sent, and how its remove_synced ended.
sync_offline_data(ctl, net, f, current_time, answers, io_load, io_remove) ==
    IF ~can_reach_gateway_pi(net)
    THEN sync_skipped(ctl, f, FALSE, FALSE)
    ELSE IF current_time - ctl.last_sync_time < SYNC_INTERVAL
         THEN sync_skipped(ctl, f, TRUE, FALSE)
         ELSE sync_batch(ctl, f, current_time, load_batch(f, BATCH_SIZE, io_load),
                         answers, io_remove)

\* What the environment does to one cycle.
NoInputs ==
    [hosts |-> NoHosts, ans |-> NoAnswer, opens |-> NoOpens, x |-> NoExchange,
     status |-> "none", answers |-> <<>>, io |-> "ok", io_remove |-> "ok"]

\* What collect_and_process_data has done when read_sensor_data returns.
seen_after_read(connectivity, rd) ==
    [fresh |-> connectivity.fresh,
     requested |-> connectivity.requested,
     gateway_pi |-> connectivity.gateway_pi,
     assigned |-> rd.assigned,
     queried |-> rd.queried,
     writes |-> rd.writes,
     data |-> rd.data,
     direct |-> "none",
     synced |-> FALSE,
     peeked |-> FALSE,
     drained |-> <<>>,
     removed |-> "none",
     saved |-> "none"]

\* collect_and_process_data: "self.offline.save(sensor_data)", after a failed
\* send or with no send.
store_offline(ctl1, net1, s1, seen, status, sv) ==
    [controller |-> ctl1, network |-> net1, sensor |-> s1, file |-> sv.file,
     obs |-> [seen EXCEPT !.direct = status,
                          !.saved = IF sv.ok THEN "ok" ELSE "fail"]]

\* collect_and_process_data: "self.sync_offline_data()", after a send that
\* the collector accepted.
sent_then_sync(ctl1, net1, s1, seen, status, sync) ==
    [controller |-> [ctl1 EXCEPT !.last_sync_time = sync.last_sync_time],
     network |-> net1, sensor |-> s1, file |-> sync.file,
     obs |-> [seen EXCEPT !.direct = status,
                          !.synced = TRUE,
                          !.peeked = sync.peeked,
                          !.drained = sync.drained,
                          !.removed = sync.removed]]

\* collect_and_process_data without the save after a failed send.
deliver_unsaved(ctl1, net1, s1, f, current_time, seen, in) ==
    IF seen.gateway_pi
    THEN IF send_to_gateway(in.status)
         THEN sent_then_sync(ctl1, net1, s1, seen, in.status,
                             sync_offline_data(ctl1, net1, f, current_time,
                                               in.answers, in.io, in.io_remove))
         ELSE store_offline(ctl1, net1, s1, seen, in.status, [file |-> f, ok |-> TRUE])
    ELSE store_offline(ctl1, net1, s1, seen, "none", save(f, seen.data[1], in.io))

\* collect_and_process_data from "Try to send data to gateway" on.
deliver(ctl1, net1, s1, f, current_time, seen, in) ==
    IF seen.gateway_pi
    THEN IF send_to_gateway(in.status)
         THEN sent_then_sync(ctl1, net1, s1, seen, in.status,
                             sync_offline_data(ctl1, net1, f, current_time,
                                               in.answers, in.io, in.io_remove))
         ELSE store_offline(ctl1, net1, s1, seen, in.status,
                            save(f, seen.data[1], in.io))
    ELSE store_offline(ctl1, net1, s1, seen, "none", save(f, seen.data[1], in.io))

\* collect_and_process_data with "self.running = False" where it finds no
\* sensor data.
collect_read_stopping(ctl, net1, s1, f, current_time, seen, in) ==
    IF seen.data = <<>>
    THEN [controller |-> [ctl EXCEPT !.running = FALSE],
          network |-> net1, sensor |-> s1, file |-> f, obs |-> seen]
    ELSE deliver([ctl EXCEPT !.data_points_collected = @ + 1],
                 net1, s1, f, current_time, seen, in)

\* collect_and_process_data after read_sensor_data.
collect_read(ctl, net1, s1, f, current_time, seen, in) ==
    IF seen.data = <<>>
    THEN [controller |-> ctl, network |-> net1, sensor |-> s1, file |-> f, obs |-> seen]
    ELSE IF ~s1.is_assigned
         THEN [controller |-> [ctl EXCEPT !.data_points_collected = @ + 1,
                                          !.running = FALSE],
               network |-> net1, sensor |-> s1, file |-> f, obs |-> seen]
         ELSE deliver([ctl EXCEPT !.data_points_collected = @ + 1],
                      net1, s1, f, current_time, seen, in)

collect_checked(ctl, f, current_time, in, connectivity, rd) ==
    collect_read(ctl, connectivity.net, rd.sensor, f, current_time,
                 seen_after_read(connectivity, rd), in)

\* MainController.collect_and_process_data: the objects and the file after
\* the call, and what the call did (obs).  in.io is how the one save or
\* load_batch of the cycle ends, in.io_remove how its remove_synced ends.
collect_and_process_data(ctl, net, s, f, current_time, in) ==
    collect_checked(ctl, f, current_time, in,
                    check_all_connectivity(net, FALSE, current_time, in.hosts),
                    read_sensor_data(s, current_time, in.ans, in.opens, in.x))

\* ------------------------------------------------------------ the agent

\* Nothing done yet: obs after construction.
NoObs ==
    [fresh |-> FALSE, requested |-> <<>>, gateway_pi |-> FALSE, assigned |-> FALSE,
     queried |-> FALSE, writes |-> 0, data |-> <<>>, direct |-> "none",
     synced |-> FALSE, peeked |-> FALSE, drained |-> <<>>, removed |-> "none", saved |-> "none"]

NoCall == [op |-> "none", arg |-> 0, io |-> "ok", ok |-> TRUE, batch |-> <<>>, count |-> 0]

\* MainController.__init__
MainController_init ==
    [running |-> TRUE, cycles_completed |-> 0, data_points_collected |-> 0,
     last_sync_time |-> 0]

\* The file a previous run of the agent left behind: n rows, captured one
\* measurement interval apart before the given time.  The first process
\* finds no file or a full one.
LeftBehind(n, before) ==
    [i \in 1..n |->
        [timestamp |-> before - (n - i + 1) * MEASUREMENT_INTERVAL,
         farm_id |-> "F1", zone_code |-> "Z1"]]

\* The objects that NetworkManager() and SensorReader() can build at a time,
\* over what the hosts, the serial port and the assignment service answer.
NetworkManager_new(current_time) ==
    {check_all_connectivity(NetworkManager_init, TRUE, current_time, hosts).net :
         hosts \in AgentHosts}
SensorReader_new(current_time) ==
    {SensorReader_init(current_time, opens, ans) :
         opens \in OpenSeqs, ans \in AssignAnswers}

\* The state after MainController() at T0.
Init ==
    /\ network \in NetworkManager_new(T0)
    /\ sensor \in SensorReader_new(T0)
    /\ controller = MainController_init
    /\ \E n \in {0, MAX_OFFLINE_RECORDS} : file = LeftBehind(n, T0)
    /\ phase = "loop"
    /\ now = T0
    /\ collector = {}
    /\ obs = NoObs
    /\ last_drain = 0
    /\ cycle_no = 0
    /\ boots = 1
    /\ api = NoCall
    /\ service = NoService
    /\ wire = NoWire

\* The timestamps the collector accepts in a cycle that did seen.
AcceptedIn(seen) ==
    (IF send_to_gateway(seen.direct) THEN {seen.data[1].timestamp} ELSE {})
    \cup {seen.drained[i].timestamp :
             i \in {j \in 1..Len(seen.drained) : send_to_gateway(seen.drained[j].status)}}

\* What collect_and_process_data can return in the current state, over the
\* inputs of the cycle.  The outcomes are collected call by call, and each
\* input is drawn only where the call reads it.
ConnectivityOutcomes(t) ==
    {check_all_connectivity(network, FALSE, t, hosts) :
        hosts \in (IF check_all_connectivity(network, FALSE, t, NoHosts).fresh
                   THEN AgentHosts ELSE {NoHosts})}

CheckOutcomes(t) ==
    {check_assignment_status(sensor, FALSE, t, ans) :
        ans \in (IF check_assignment_status(sensor, FALSE, t, NoAnswer).queried
                 THEN AssignAnswers ELSE {NoAnswer})}

ReadOutcomesAfter(chk, t) ==
    {read_checked(chk, t, opens, x) :
        opens \in (IF chk.result /\ chk.sensor.serial_conn = None
                   THEN OpenSeqs ELSE {NoOpens}),
        x \in (IF chk.result THEN Exchanges ELSE {NoExchange})}

ReadOutcomes(t) == UNION {ReadOutcomesAfter(chk, t) : chk \in CheckOutcomes(t)}

\* The answers to the n records of a batch: "200" to the first k, and a
\* failure to the next one.  Nothing is sent after the first failure, so the
\* answers behind it are not drawn.
DrainAnswers(n) ==
    {[i \in 1..n |-> IF i <= k THEN "200" ELSE failure] :
         k \in 0..n, failure \in DrainFailures}

DrainInputs(status, io) ==
    {[NoInputs EXCEPT !.status = status, !.io = io,
                      !.answers = answers, !.io_remove = io_remove] :
        answers \in DrainAnswers(Len(load_batch(file, BATCH_SIZE, io))),
        io_remove \in IoOutcomes}

DeliveryInputs(connectivity) ==
    IF connectivity.gateway_pi
    THEN UNION {IF send_to_gateway(status)
                THEN DrainInputs(status, io)
                ELSE {[NoInputs EXCEPT !.status = status, !.io = io]} :
                    status \in Statuses, io \in IoOutcomes}
    ELSE {[NoInputs EXCEPT !.io = io] : io \in IoOutcomes}

OutcomesAfter(connectivity, rd, t) ==
    {collect_checked(controller, file, t, in, connectivity, rd) :
        in \in (IF rd.data # <<>> THEN DeliveryInputs(connectivity) ELSE {NoInputs})}

\* The times at which the next pass can start.
CycleTimes ==
    IF controller.cycles_completed = 0
    THEN {now}
    ELSE {now + span : span \in CycleSpans}

Outcomes(t) ==
    UNION {OutcomesAfter(connectivity, rd, t) :
               connectivity \in ConnectivityOutcomes(t), rd \in ReadOutcomes(t)}

\* run after collect_and_process_data returned r at the time t:
\* cycles_completed += 1.
CycleDone(r, t) ==
    /\ controller' = [r.controller EXCEPT !.cycles_completed = @ + 1]
    /\ network' = r.network
    /\ sensor' = r.sensor
    /\ file' = r.file
    /\ obs' = r.obs
    /\ collector' = collector \cup AcceptedIn(r.obs)
    /\ last_drain' = IF r.obs.drained # <<>> THEN t ELSE last_drain
    /\ now' = t
    /\ cycle_no' = cycle_no + 1
    /\ UNCHANGED <<phase, boots, api, service, wire>>

\* One pass of the while loop of MainController.run, taken from the end of
\* the sleep of the pass before it (no sleep before the first pass) to the
\* start of its own sleep.
Cycle ==
    /\ phase = "loop"
    /\ controller.running
    /\ cycle_no < MaxCycles
    /\ \E t \in CycleTimes : \E r \in Outcomes(t) : CycleDone(r, t)

\* MainController.signal_handler (SIGINT, SIGTERM)
Signal ==
    /\ phase = "loop"
    /\ controller.running
    /\ cycle_no < MaxCycles
    /\ controller' = [controller EXCEPT !.running = FALSE]
    /\ UNCHANGED <<network, sensor, file, phase, now, collector, obs, last_drain,
                   cycle_no, boots, api, service, wire>>

\* The while loop of run ends and MainController.shutdown runs.
Shutdown ==
    /\ phase = "loop"
    /\ ~controller.running
    /\ phase' = "stopped"
    /\ sensor' = close(sensor)
    /\ UNCHANGED <<controller, network, file, now, collector, obs, last_drain,
                   cycle_no, boots, api, service, wire>>

\* A new process starts after the last one has stopped: MainController()
\* again, with the file and the collector as they are.
Restart ==
    /\ phase = "stopped"
    /\ boots < MaxBoots
    /\ \E t \in {now + span : span \in CycleSpans} :
           /\ now' = t
           /\ network' \in NetworkManager_new(t)
           /\ sensor' \in SensorReader_new(t)
    /\ controller' = MainController_init
    /\ file' = OfflineLogger_init(file)
    /\ phase' = "loop"
    /\ obs' = NoObs
    /\ last_drain' = 0
    /\ boots' = boots + 1
    /\ UNCHANGED <<collector, cycle_no, api, service, wire>>

Next == Cycle \/ Signal \/ Shutdown \/ Restart

Spec == Init /\ [][Next]_vars

\* ------------------------------------------------------------ the store alone

\* The calls of OfflineLogger in any order, with any arguments: save,
\* load_batch and remove_synced on the file a previous run left behind.
\* Every save stores a reading captured one interval after the last one.

UnusedByStore ==
    /\ controller = MainController_init
    /\ network = NetworkManager_init
    /\ sensor \in SensorReader_new(T0)
    /\ sensor.is_assigned
    /\ sensor.serial_conn = "open"
    /\ phase = "loop"
    /\ collector = {}
    /\ obs = NoObs
    /\ last_drain = 0
    /\ cycle_no = 0
    /\ boots = 1

QueueInit ==
    /\ UnusedByStore
    /\ \E n \in 0..MAX_OFFLINE_RECORDS : file = LeftBehind(n, T0)
    /\ now = T0
    /\ api = NoCall
    /\ service = NoService
    /\ wire = NoWire

\* The readings handed to save: with the farm and zone of the assignment, or
\* with None for both.
ReadingsAt(current_time) ==
    {[timestamp |-> current_time, farm_id |-> a, zone_code |-> a] : a \in {None}}
    \cup {sensor_data(sensor, current_time)}

QueueSave ==
    /\ now < T0 + MaxSaves * MEASUREMENT_INTERVAL
    /\ \E data \in ReadingsAt(now), io \in IoOutcomes :
           /\ file' = save(file, data, io).file
           /\ api' = [op |-> "save", arg |-> 0, io |-> io,
                      ok |-> save(file, data, io).ok, batch |-> <<data>>,
                      count |-> Len(file)]
    /\ now' = now + MEASUREMENT_INTERVAL
    /\ UNCHANGED <<controller, network, sensor, phase, collector, obs, last_drain,
                   cycle_no, boots, service, wire>>

QueueLoadBatch ==
    /\ \E batch_size \in 1..(MAX_OFFLINE_RECORDS + 1), io \in IoOutcomes :
           api' = [op |-> "load_batch", arg |-> batch_size, io |-> io, ok |-> io = "ok",
                   batch |-> load_batch(file, batch_size, io), count |-> Len(file)]
    /\ UNCHANGED <<controller, network, sensor, file, phase, now, collector, obs,
                   last_drain, cycle_no, boots, service, wire>>

QueueRemoveSynced ==
    /\ \E count \in 0..(MAX_OFFLINE_RECORDS + 1), io \in IoOutcomes :
           /\ file' = remove_synced(file, count, io).file
           /\ api' = [op |-> "remove_synced", arg |-> count, io |-> io,
                      ok |-> remove_synced(file, count, io).ok, batch |-> <<>>,
                      count |-> Len(file)]
    /\ UNCHANGED <<controller, network, sensor, phase, now, collector, obs,
                   last_drain, cycle_no, boots, service, wire>>

QueueNext == QueueSave \/ QueueLoadBatch \/ QueueRemoveSynced

QueueSpec == QueueInit /\ [][QueueNext]_vars

\* ------------------------------------------------------------ the cache alone

\* NetworkManager on its own: check_all_connectivity called at any time, any
\* number of times, while time passes in thirds of its TTL.

Tick == CONNECTIVITY_TTL \div 3

NetInit ==
    /\ network \in {check_all_connectivity(NetworkManager_init, TRUE, T0, hosts).net :
                        hosts \in Hosts}
    /\ controller = MainController_init
    /\ sensor \in SensorReader_new(T0)
    /\ sensor.is_assigned
    /\ sensor.serial_conn = "open"
    /\ file = <<>>
    /\ phase = "loop"
    /\ now = T0
    /\ collector = {}
    /\ obs = NoObs
    /\ last_drain = 0
    /\ cycle_no = 0
    /\ boots = 1
    /\ api = NoCall
    /\ service = NoService
    /\ wire = NoWire

\* One call of check_all_connectivity(): obs holds what it did and returned,
\* api what the hosts would answer at the time of the call.
NetQuery ==
    /\ \E hosts \in Hosts :
           /\ network' = check_all_connectivity(network, FALSE, now, hosts).net
           /\ obs' = [NoObs EXCEPT
                        !.fresh = check_all_connectivity(network, FALSE, now, hosts).fresh,
                        !.requested =
                            check_all_connectivity(network, FALSE, now, hosts).requested,
                        !.gateway_pi =
                            check_all_connectivity(network, FALSE, now, hosts).gateway_pi]
           /\ api' = [NoCall EXCEPT !.op = "check_all_connectivity", !.arg = now,
                                    !.batch = <<hosts>>]
    /\ UNCHANGED <<controller, sensor, file, phase, now, collector, last_drain,
                   cycle_no, boots, service, wire>>

NetTick ==
    /\ now < T0 + MaxTicks * Tick
    /\ now' = now + Tick
    /\ UNCHANGED <<controller, network, sensor, file, phase, collector, obs,
                   last_drain, cycle_no, boots, api, service, wire>>

NetNext == NetQuery \/ NetTick

NetSpec == NetInit /\ [][NetNext]_vars

\* ------------------------------------------------------------ the assignment followed

\* The agent from an unassigned device and an empty queue, with the record the
\* assignment service holds for the device followed: the record flips at any
\* time, and every assignment check that is answered is answered from it.

ServiceStates == {"assigned", "unassigned"}

\* The body of a 200 answer for the record.
ServiceData(svc) ==
    IF svc = "assigned"
    THEN [has_assigned |-> TRUE, assigned |-> TRUE, farm_id |-> "F1", zone_code |-> "Z1"]
    ELSE [has_assigned |-> TRUE, assigned |-> FALSE, farm_id |-> None, zone_code |-> None]

\* What one assignment check can get while the service holds the record: a
\* 200 with it, a failure, or, for a device that is not assigned, a 404.
ServiceAnswers(svc) ==
    {a \in AssignAnswers :
        /\ ("200" \in {a.gw, a.db}) => a.data = ServiceData(svc)
        /\ a.db = "404" => svc = "unassigned"}

AssignInit ==
    /\ service = "unassigned"
    /\ sensor \in {SensorReader_init(T0, opens, ans) :
                       opens \in OpenSeqs, ans \in ServiceAnswers("unassigned")}
    /\ network \in NetworkManager_new(T0)
    /\ controller = MainController_init
    /\ file = <<>>
    /\ phase = "loop"
    /\ now = T0
    /\ collector = {}
    /\ obs = NoObs
    /\ last_drain = 0
    /\ cycle_no = 0
    /\ boots = 1
    /\ api = NoCall
    /\ wire = NoWire

\* An operator assigns the device to a farm and zone, or withdraws it.
AssignFlip ==
    /\ service' \in ServiceStates \ {service}
    /\ UNCHANGED <<controller, network, sensor, file, phase, now, collector, obs,
                   last_drain, cycle_no, boots, api, wire>>

\* What collect_and_process_data can return when its assignment check is
\* answered from the record.
AssignOutcomes(t) ==
    UNION {OutcomesAfter(connectivity, rd, t) :
               connectivity \in ConnectivityOutcomes(t),
               rd \in UNION {ReadOutcomesAfter(
                                 check_assignment_status(sensor, FALSE, t, ans), t) :
                                 ans \in ServiceAnswers(service)}}

\* One pass of the loop, as Cycle.
AssignCycle ==
    /\ phase = "loop"
    /\ controller.running
    /\ cycle_no < MaxCycles
    /\ \E t \in CycleTimes : \E r \in AssignOutcomes(t) : CycleDone(r, t)

AssignNext == AssignFlip \/ AssignCycle

AssignSpec == AssignInit /\ [][AssignNext]_vars

\* ------------------------------------------------------------ the link alone
\* read_sensor_data alone, with the bytes that travel on the serial link.

\* The seven registers a probe answers with, for two soils.
Registers ==
    {<<500, 250, 0, 70, 65535, 256, 1>>,
     <<1000, 123, 45, 6, 7, 8, 9>>}

\* The probe's answer before its checksum: address, function, byte count and
\* the registers, high byte first.
frame_body(regs) ==
    <<1, 3, 14>>
        \o <<regs[1] \div 256, regs[1] % 256, regs[2] \div 256, regs[2] % 256>>
        \o <<regs[3] \div 256, regs[3] % 256, regs[4] \div 256, regs[4] % 256>>
        \o <<regs[5] \div 256, regs[5] % 256, regs[6] \div 256, regs[6] % 256>>
        \o <<regs[7] \div 256, regs[7] % 256>>

\* The frame with the byte at position i (1-based) damaged on the line.
damaged(frame, i) == [frame EXCEPT ![i] = (frame[i] + 1) % 256]

\* The frames the link can deliver: intact, with a data byte damaged, with
\* the trailer damaged.
GoodFrames == {frame_body(regs) \o crc16_modbus(frame_body(regs)) : regs \in Registers}
Frames ==
    GoodFrames
    \cup {damaged(f, 4) : f \in GoodFrames}
    \cup {damaged(f, RESPONSE_LENGTH) : f \in GoodFrames}

\* One exchange on the serial link in bytes: whether write, the first read
\* or the second read ("reread") raises a SerialException, the bytes the
\* first read returns and the bytes a second read returns.
ByteExchanges ==
    {[fault |-> f, first |-> <<>>, second |-> <<>>] : f \in {"write", "read"}}
    \cup {[fault |-> "reread", first |-> SubSeq(f, 1, RESPONSE_LENGTH \div 2),
            second |-> <<>>] : f \in GoodFrames}
    \cup {[fault |-> "none", first |-> f, second |-> <<>>] : f \in Frames}
    \cup UNION {{[fault |-> "none",
                  first |-> SubSeq(f, 1, k),
                  second |-> SubSeq(f, k + 1, m)] :
                     m \in {k, RESPONSE_LENGTH - 1, RESPONSE_LENGTH}} :
                    f \in Frames, k \in {0, RESPONSE_LENGTH \div 2}}
NoBytes == [fault |-> "none", first |-> <<>>, second |-> <<>>]

\* read_sensor_data: response after "response += additional".
response_of(bx) ==
    IF Len(bx.first) < RESPONSE_LENGTH THEN bx.first \o bx.second ELSE bx.first

\* What read_sensor_data reads of the exchange: the lengths, and the outcome
\* of its CRC check on a response of full length.
exchange_of(bx) ==
    [fault |-> IF bx.fault = "reread" THEN "read" ELSE bx.fault,
     n1 |-> Len(bx.first),
     n2 |-> Len(bx.second),
     crc_ok |-> Len(response_of(bx)) = RESPONSE_LENGTH /\ crc_matches(response_of(bx))]

\* The exchanges with what read_sensor_data reads of each.
LinkExchanges == {[bytes |-> bx, seen |-> exchange_of(bx)] : bx \in ByteExchanges}
NoLink == [bytes |-> NoBytes, seen |-> NoExchange]

\* read_sensor_data: the calls of serial_conn.read it makes in the exchange,
\* one that raises included.
serial_reads(bx) ==
    IF bx.fault = "write" THEN 0
    ELSE IF bx.fault = "read" THEN 1
    ELSE IF Len(bx.first) # RESPONSE_LENGTH /\ Len(bx.first) < RESPONSE_LENGTH
         THEN 2
         ELSE 1

\* read_sensor_data: the attempts of the initialize_serial it calls, if any.
open_attempts(chk, opens) ==
    IF chk.result /\ chk.sensor.serial_conn = None
    THEN initialize_serial(chk.sensor, opens).attempts
    ELSE 0

\* What went over the link in the call: the command written, the response
\* assembled, and the measurements of the dict returned.
wire_of(r, bx) ==
    [command |-> IF r.writes = 1 THEN MODBUS_COMMAND ELSE <<>>,
     frame |-> IF r.writes = 1 /\ bx.fault = "none" THEN response_of(bx) ELSE <<>>,
     reading |-> IF r.data = <<>> THEN <<>> ELSE <<measurements(response_of(bx))>>]

\* The call as the port saw it: the attempts to open it, whether the command
\* was written, the exchange (none when nothing was written) with the number
\* of its reads, and whether a dict was returned.
port_call(r, bx, attempts) ==
    [op |-> "read_sensor_data",
     arg |-> attempts,
     io |-> IF r.writes = 1 THEN bx.fault ELSE "unused",
     ok |-> r.data # <<>>,
     batch |-> IF r.writes = 1 THEN <<bx>> ELSE <<>>,
     count |-> IF r.writes = 1 THEN serial_reads(bx) ELSE 0]

\* What read_sensor_data can do at time t, with what went over the link.
PollOutcomesAfter(chk, t) ==
    {[sensor |-> read_checked(chk, t, opens, lx.seen).sensor,
      wire |-> wire_of(read_checked(chk, t, opens, lx.seen), lx.bytes)] :
        opens \in (IF chk.result /\ chk.sensor.serial_conn = None
                   THEN OpenSeqs ELSE {NoOpens}),
        lx \in (IF chk.result THEN LinkExchanges ELSE {NoLink})}

PollOutcomes(t) == UNION {PollOutcomesAfter(chk, t) : chk \in CheckOutcomes(t)}

SensorInit ==
    /\ sensor \in SensorReader_new(T0)
    /\ network = NetworkManager_init
    /\ controller = MainController_init
    /\ file = <<>>
    /\ phase = "loop"
    /\ now = T0
    /\ collector = {}
    /\ obs = NoObs
    /\ last_drain = 0
    /\ cycle_no = 0
    /\ boots = 1
    /\ api = NoCall
    /\ service = NoService
    /\ wire = NoWire

\* One call of read_sensor_data.
SensorPoll ==
    /\ cycle_no < MaxPolls
    /\ \E t \in {now + span : span \in CycleSpans} :
         \E r \in PollOutcomes(t) :
            /\ sensor' = r.sensor
            /\ wire' = r.wire
            /\ now' = t
    /\ cycle_no' = cycle_no + 1
    /\ api' = NoCall
    /\ UNCHANGED <<controller, network, file, phase, collector, obs, last_drain,
                   boots, service>>

\* One call of check_assignment_status, with the answers it got.
SensorCheck ==
    /\ cycle_no < MaxPolls
    /\ \E t \in {now + span : span \in CycleSpans} :
         \E ans \in (IF check_assignment_status(sensor, FALSE, t, NoAnswer).queried
                     THEN AssignAnswers ELSE {NoAnswer}) :
            /\ sensor' = check_assignment_status(sensor, FALSE, t, ans).sensor
            /\ api' = [NoCall EXCEPT
                           !.op = "check_assignment_status",
                           !.ok = check_assignment_status(sensor, FALSE, t, ans).result,
                           !.batch = <<ans>>]
            /\ now' = t
    /\ cycle_no' = cycle_no + 1
    /\ UNCHANGED <<controller, network, file, phase, collector, obs, last_drain,
                   boots, service, wire>>

\* One call of close.
SensorClose ==
    /\ sensor.serial_conn = "open"
    /\ sensor' = close(sensor)
    /\ UNCHANGED <<controller, network, file, phase, now, collector, obs, last_drain,
                   cycle_no, boots, api, service, wire>>

SensorNext == SensorPoll \/ SensorCheck \/ SensorClose

SensorSpec == SensorInit /\ [][SensorNext]_vars

\* ------------------------------------------------------------ the loop step by step
\* MainController.run with the test of its while loop, the pass and the sleep
\* as steps of their own, so that a signal can arrive between them.

RunInit ==
    /\ network \in NetworkManager_new(T0)
    /\ sensor \in SensorReader_new(T0)
    /\ controller = MainController_init
    /\ file = <<>>
    /\ phase = "test"
    /\ now = T0
    /\ collector = {}
    /\ obs = NoObs
    /\ last_drain = 0
    /\ cycle_no = 0
    /\ boots = 1
    /\ api = NoCall
    /\ service = NoService
    /\ wire = NoWire

\* The inputs of a pass the loop is followed with: the collector reachable
\* or not, the assignment service answering "assigned", "not assigned" or
\* not at all, the serial port opening or not, the probe answering with a
\* good frame, a damaged one or not at all, the collector accepting or
\* refusing the reading and the queue, and the storage writable or not.
RunGood ==
    [NoInputs EXCEPT
        !.hosts = [db |-> TRUE, gw |-> TRUE, www |-> FALSE],
        !.ans = [gw |-> "200", db |-> "none",
                 data |-> [has_assigned |-> TRUE, assigned |-> TRUE,
                           farm_id |-> "F1", zone_code |-> "Z1"]],
        !.x = [fault |-> "none", n1 |-> RESPONSE_LENGTH, n2 |-> 0, crc_ok |-> TRUE],
        !.status = "200",
        !.answers = [i \in 1..BATCH_SIZE |-> "200"]]
RunInputs ==
    {RunGood,
     [RunGood EXCEPT !.hosts.gw = FALSE],
     [RunGood EXCEPT !.hosts.gw = FALSE, !.io = "fail"],
     [RunGood EXCEPT !.ans = [gw |-> "200", db |-> "none",
                              data |-> [has_assigned |-> TRUE, assigned |-> FALSE,
                                        farm_id |-> None, zone_code |-> None]]],
     [RunGood EXCEPT !.ans = [gw |-> "RequestException", db |-> "Timeout",
                              data |-> NoData]],
     [RunGood EXCEPT !.opens = [i \in 1..MAX_RETRY_ATTEMPTS |-> "SerialException"]],
     [RunGood EXCEPT !.x.fault = "read"],
     [RunGood EXCEPT !.x.crc_ok = FALSE],
     [RunGood EXCEPT !.status = "500"],
     [RunGood EXCEPT !.answers = [i \in 1..BATCH_SIZE |-> "500"]]}

\* "while self.running:" entering the body whatever the flag.
RunTestAlways ==
    /\ phase = "test"
    /\ cycle_no < MaxRuns
    /\ phase' = "cycle"
    /\ UNCHANGED <<controller, network, sensor, file, now, collector, obs, last_drain,
                   cycle_no, boots, api, service, wire>>

\* "while self.running:" found true: a pass starts.
RunTest ==
    /\ phase = "test"
    /\ controller.running
    /\ cycle_no < MaxRuns
    /\ phase' = "cycle"
    /\ UNCHANGED <<controller, network, sensor, file, now, collector, obs, last_drain,
                   cycle_no, boots, api, service, wire>>

\* The pass: collect_and_process_data and "self.cycles_completed += 1".
RunCollect ==
    /\ phase = "cycle"
    /\ \E r \in {collect_and_process_data(controller, network, sensor, file, now, in) :
                      in \in RunInputs} :
          /\ controller' = [r.controller EXCEPT !.cycles_completed = @ + 1]
          /\ network' = r.network
          /\ sensor' = r.sensor
          /\ file' = r.file
          /\ obs' = r.obs
          /\ collector' = collector \cup AcceptedIn(r.obs)
          /\ last_drain' = IF r.obs.drained # <<>> THEN now ELSE last_drain
    /\ cycle_no' = cycle_no + 1
    /\ phase' = "sleep"
    /\ UNCHANGED <<now, boots, api, service, wire>>

\* "time.sleep(sleep_time)" returns, a measurement interval after the pass
\* started.
RunSleep ==
    /\ phase = "sleep"
    /\ now' = now + MEASUREMENT_INTERVAL
    /\ phase' = "test"
    /\ UNCHANGED <<controller, network, sensor, file, collector, obs, last_drain,
                   cycle_no, boots, api, service, wire>>

\* MainController.signal_handler, run between two steps of the loop; the
\* record keeps where the loop was and the passes it had completed.
RunSignal ==
    /\ phase # "stopped"
    /\ api.op # "signal_handler"
    /\ controller' = [controller EXCEPT !.running = FALSE]
    /\ api' = [NoCall EXCEPT !.op = "signal_handler",
                             !.batch = <<phase>>,
                             !.count = controller.cycles_completed]
    /\ UNCHANGED <<network, sensor, file, phase, now, collector, obs, last_drain,
                   cycle_no, boots, service, wire>>

\* "while self.running:" found false: the loop ends and shutdown runs.
RunShutdown ==
    /\ phase = "test"
    /\ ~controller.running
    /\ phase' = "stopped"
    /\ sensor' = close(sensor)
    /\ UNCHANGED <<controller, network, file, now, collector, obs, last_drain,
                   cycle_no, boots, api, service, wire>>

RunNext == RunTest \/ RunCollect \/ RunSleep \/ RunSignal \/ RunShutdown

\* The loop is sequential code whose calls all return (each network call and
\* each serial read has a timeout): every step of it is eventually taken.
\* Nothing makes a signal arrive.
RunSpec ==
    /\ RunInit
    /\ [][RunNext]_vars
    /\ WF_vars(RunTest)
    /\ WF_vars(RunCollect)
    /\ WF_vars(RunSleep)
    /\ WF_vars(RunShutdown)

\* ------------------------------------------------------------ the port
\* read_sensor_data and close as the serial port sees them: the record api
\* keeps, of the last call, the attempts to open the port, the exchange and
\* the number of its reads, or the closes made in a row; obs keeps the record
\* of the call before a read_sensor_data.

\* What a port does in an exchange: a port that was closed raises at the
\* write.
PortExchanges(s) ==
    IF s.serial_conn = "closed"
    THEN {lx \in LinkExchanges : lx.bytes.fault = "write"}
    ELSE LinkExchanges

\* What read_sensor_data can do at time t, with what the port saw.
LinkOutcomesAfter(chk, t) ==
    {[sensor |-> read_checked(chk, t, opens, lx.seen).sensor,
      wire |-> wire_of(read_checked(chk, t, opens, lx.seen), lx.bytes),
      call |-> port_call(read_checked(chk, t, opens, lx.seen), lx.bytes,
                         open_attempts(chk, opens))] :
        opens \in (IF chk.result /\ chk.sensor.serial_conn = None
                   THEN OpenSeqs ELSE {NoOpens}),
        lx \in (IF chk.result THEN PortExchanges(chk.sensor) ELSE {NoLink})}

LinkOutcomes(t) == UNION {LinkOutcomesAfter(chk, t) : chk \in CheckOutcomes(t)}

LinkInit ==
    /\ sensor \in SensorReader_new(T0)
    /\ network = NetworkManager_init
    /\ controller = MainController_init
    /\ file = <<>>
    /\ phase = "loop"
    /\ now = T0
    /\ collector = {}
    /\ obs = NoCall
    /\ last_drain = 0
    /\ cycle_no = 0
    /\ boots = 1
    /\ api = NoCall
    /\ service = NoService
    /\ wire = NoWire

\* One call of read_sensor_data, a measurement interval after the last.
LinkPoll ==
    /\ cycle_no < MaxPolls
    /\ \E r \in LinkOutcomes(now + MEASUREMENT_INTERVAL) :
          /\ sensor' = r.sensor
          /\ wire' = r.wire
          /\ api' = r.call
    /\ obs' = api
    /\ now' = now + MEASUREMENT_INTERVAL
    /\ cycle_no' = cycle_no + 1
    /\ UNCHANGED <<controller, network, file, phase, collector, last_drain,
                   boots, service>>

\* One call of close, in whatever state the port is; api counts the closes
\* made in a row and keeps the port as the call found it.
LinkClose ==
    /\ (IF api.op = "close" THEN api.count ELSE 0) < MaxCloses
    /\ sensor' = close(sensor)
    /\ api' = [NoCall EXCEPT !.op = "close",
                             !.count = (IF api.op = "close" THEN api.count ELSE 0) + 1,
                             !.batch = <<sensor.serial_conn>>]
    /\ UNCHANGED <<controller, network, file, phase, now, collector, obs, last_drain,
                   cycle_no, boots, service, wire>>

LinkNext == LinkPoll \/ LinkClose

LinkSpec == LinkInit /\ [][LinkNext]_vars

\* ------------------------------------------------------------ the collector back
\* The loop from the moment the collector is reachable again and accepts
\* every send, with a queue that earlier passes left.  The record api keeps
\* the queue as it was at that moment, and counts the passes in which no
\* reading was sent.

\* The inputs of a pass while the collector accepts everything and the
\* storage works: what the assignment service, the serial port and the probe
\* do is free.
LiveInputs ==
    {RunGood,
     [RunGood EXCEPT !.ans = [gw |-> "200", db |-> "none",
                              data |-> [has_assigned |-> TRUE, assigned |-> FALSE,
                                        farm_id |-> None, zone_code |-> None]]],
     [RunGood EXCEPT !.ans = [gw |-> "RequestException", db |-> "Timeout",
                              data |-> NoData]],
     [RunGood EXCEPT !.opens = [i \in 1..MAX_RETRY_ATTEMPTS |-> "SerialException"]],
     [RunGood EXCEPT !.x.fault = "read"],
     [RunGood EXCEPT !.x.crc_ok = FALSE]}

LiveInit ==
    /\ network = check_all_connectivity(NetworkManager_init, TRUE, T0, RunGood.hosts).net
    /\ sensor \in SensorReader_new(T0)
    /\ controller = MainController_init
    /\ \E n \in {1, MAX_OFFLINE_RECORDS} : file = LeftBehind(n, T0)
    /\ phase = "loop"
    /\ now = T0
    /\ collector = {}
    /\ obs = NoObs
    /\ last_drain = 0
    /\ cycle_no = 0
    /\ boots = 1
    /\ api = [NoCall EXCEPT !.op = "queued", !.batch = file]
    /\ service = NoService
    /\ wire = NoWire

\* One pass of the loop and its sleep.
LiveCycle ==
    /\ controller.running
    /\ cycle_no < MaxLive
    /\ \E r \in {collect_and_process_data(controller, network, sensor, file, now, in) :
                    in \in LiveInputs} :
          /\ controller' = [r.controller EXCEPT !.cycles_completed = @ + 1]
          /\ network' = r.network
          /\ sensor' = r.sensor
          /\ file' = r.file
          /\ obs' = r.obs
          /\ collector' = collector \cup AcceptedIn(r.obs)
          /\ last_drain' = IF r.obs.drained # <<>> THEN now ELSE last_drain
          /\ api' = [api EXCEPT !.count = IF r.obs.synced THEN @ ELSE @ + 1]
    /\ cycle_no' = cycle_no + 1
    /\ now' = now + MEASUREMENT_INTERVAL
    /\ UNCHANGED <<phase, boots, service, wire>>

LiveNext == LiveCycle

\* The loop keeps cycling.
LiveSpec == LiveInit /\ [][LiveNext]_vars /\ WF_vars(LiveCycle)

\* ------------------------------------------------------------ the collector refusing
\* The loop with a collector that refuses entries of the queue with 403.  The
\* record api keeps the entry at which a 403 last stopped a drain, until the
\* collector accepts that entry.

\* The inputs of a pass: the reading sent and the drain answered 200 up to
\* some entry and 403 from it on, with remove_synced working or not; or the
\* reading refused or the collector out of reach, and the reading saved.
RejectInputs ==
    {[RunGood EXCEPT !.answers = [i \in 1..BATCH_SIZE |-> IF i <= k THEN "200" ELSE "403"],
                     !.io_remove = io_remove] :
         k \in 0..BATCH_SIZE, io_remove \in IoOutcomes}
    \cup {[RunGood EXCEPT !.status = "500"],
          [RunGood EXCEPT !.hosts.gw = FALSE]}

\* The entry at which a 403 stopped the drain of the pass, if one did.
RejectedIn(o) ==
    IF o.drained # <<>> /\ o.drained[Len(o.drained)].status = "403"
    THEN <<o.drained[Len(o.drained)]>>
    ELSE <<>>

RejectInit ==
    /\ network = check_all_connectivity(NetworkManager_init, TRUE, T0, RunGood.hosts).net
    /\ sensor \in SensorReader_new(T0)
    /\ controller = MainController_init
    /\ \E n \in {BATCH_SIZE, MAX_OFFLINE_RECORDS} : file = LeftBehind(n, T0)
    /\ phase = "loop"
    /\ now = T0
    /\ collector = {}
    /\ obs = NoObs
    /\ last_drain = 0
    /\ cycle_no = 0
    /\ boots = 1
    /\ api = NoCall
    /\ service = NoService
    /\ wire = NoWire

\* One pass of the loop and its sleep.
RejectCycle ==
    /\ controller.running
    /\ cycle_no < MaxLive
    /\ \E r \in {collect_and_process_data(controller, network, sensor, file, now, in) :
                    in \in RejectInputs} :
          /\ controller' = [r.controller EXCEPT !.cycles_completed = @ + 1]
          /\ network' = r.network
          /\ sensor' = r.sensor
          /\ file' = r.file
          /\ obs' = r.obs
          /\ collector' = collector \cup AcceptedIn(r.obs)
          /\ last_drain' = IF r.obs.drained # <<>> THEN now ELSE last_drain
          /\ api' = IF RejectedIn(r.obs) # <<>>
                    THEN [NoCall EXCEPT !.op = "rejected", !.batch = RejectedIn(r.obs)]
                    ELSE IF api.op = "rejected"
                            /\ api.batch[1].timestamp \in AcceptedIn(r.obs)
                         THEN NoCall
                         ELSE api
    /\ cycle_no' = cycle_no + 1
    /\ now' = now + MEASUREMENT_INTERVAL
    /\ UNCHANGED <<phase, boots, service, wire>>

RejectNext == RejectCycle

\* The loop keeps cycling.
RejectSpec == RejectInit /\ [][RejectNext]_vars /\ WF_vars(RejectCycle)

\* ------------------------------------------------------------ properties

\* A step that is one pass of the loop.
CycleStep == cycle_no' = cycle_no + 1

\* The collector took the reading: send_to_gateway returned True.
Accepted(status) == send_to_gateway(status)

\* The answers that are neither an acceptance nor the rejection 403.
TransientFailures == {"500", "ConnectionError", "Timeout"}

Timestamps(rows) == {rows[i].timestamp : i \in 1..Len(rows)}

\* The timestamps the collector has accepted once the first j - 1 records of
\* the drain of this pass have been sent.
AcceptedBefore(j) ==
    collector \cup {obs'.data[1].timestamp}
    \cup {obs'.drained[i].timestamp : i \in {h \in 1..(j - 1) : Accepted(obs'.drained[h].status)}}

\* The rows of the file are in capture order, oldest first.
FileInCaptureOrder ==
    \A i, j \in 1..Len(file) : i < j => file[i].timestamp < file[j].timestamp

\* C1: the collector never accepts a reading while a reading captured
\* earlier is still in the queue and not accepted: neither the reading sent
\* directly in a pass nor any queued record sent in its drain.
C1_AcceptedInCaptureOrder ==
    [][CycleStep =>
          /\ Accepted(obs'.direct) =>
                 \A p \in Timestamps(file) \ collector : p >= obs'.data[1].timestamp
          /\ \A j \in 1..Len(obs'.drained) :
                 Accepted(obs'.drained[j].status) =>
                     \A p \in Timestamps(file) \ AcceptedBefore(j) :
                         p >= obs'.drained[j].timestamp]_vars

C3_RejectedReadingDropped ==
    [][(CycleStep /\ obs'.direct = "403") => file' = file]_vars

\* C4: in a pass that acquired a reading, when the collector is cached as
\* unreachable or the direct send failed for a transient reason, and the save
\* did not fail on storage, the reading is the last row of the file after the
\* pass; with the collector cached as unreachable nothing is sent.
C4_FailedSendIsQueued ==
    [][(CycleStep /\ obs'.data # <<>>
            /\ (~obs'.gateway_pi \/ obs'.direct \in TransientFailures)
            /\ obs'.saved # "fail") =>
          /\ file' # <<>>
          /\ file'[Len(file')] = to_csv_row(obs'.data[1])
          /\ ~obs'.gateway_pi =>
                 (obs'.direct = "none" /\ obs'.drained = <<>>
                      /\ collector' = collector)]_vars

\* A pass whose direct send timed out on a full queue: the reading is queued.
C4_TimedOutAndQueued ==
    /\ obs.direct = "Timeout"
    /\ obs.saved = "ok"
    /\ Len(file) = MAX_OFFLINE_RECORDS
    /\ file[Len(file)].timestamp = now

\* C5: the queue never holds more than MAX_OFFLINE_RECORDS entries; a save
\* that stores drops entries only from the head, only as many as the capacity
\* requires, and its reading is the last entry afterwards.
C5_CapacityEvictsOldest ==
    /\ [](Len(file) <= MAX_OFFLINE_RECORDS)
    /\ [][(api'.op = "save" /\ now' # now /\ api'.ok) =>
             /\ Len(file') <= Len(file) + 1
             /\ Len(file') < Len(file) + 1 => Len(file') = MAX_OFFLINE_RECORDS
             /\ file' = SubSeq(file, Len(file) + 2 - Len(file'), Len(file))
                            \o <<to_csv_row(api'.batch[1])>>]_vars

\* A save on a full queue that stored its reading.
C5_SavedAtCapacity ==
    /\ api.op = "save"
    /\ api.ok
    /\ api.count = MAX_OFFLINE_RECORDS
    /\ Len(file) = MAX_OFFLINE_RECORDS
    /\ file[Len(file)] = to_csv_row(api.batch[1])

C7_LeavesOnlyByDrainOrEviction ==
    [][file' # file =>
          /\ CycleStep
          /\ \/ \E k \in 1..Len(file) :
                    /\ file' = SubSeq(file, k + 1, Len(file))
                    /\ k <= Len(obs'.drained)
                    /\ \A i \in 1..k :
                           /\ obs'.drained[i].timestamp = file[i].timestamp
                           /\ Accepted(obs'.drained[i].status)
             \/ /\ obs'.saved = "ok"
                /\ \E d \in 0..Len(file) :
                       /\ file' = SubSeq(file, d + 1, Len(file))
                                      \o <<to_csv_row(obs'.data[1])>>
                       /\ d > 0 => Len(file') = MAX_OFFLINE_RECORDS]_vars

\* A drain has removed the head of the queue and left the rest.
C7_HeadRemoved ==
    /\ obs.removed = "ok"
    /\ obs.drained # <<>>
    /\ file # <<>>
    /\ Len(file) < MAX_OFFLINE_RECORDS
    /\ \A i \in 1..Len(file) : file[i].timestamp > obs.drained[1].timestamp

\* C8: a process that has sent queued entries sends queued entries again no
\* sooner than SYNC_INTERVAL later.
C8_OneDrainPerInterval ==
    [][(CycleStep /\ obs'.drained # <<>> /\ last_drain > 0) =>
          now' - last_drain >= SYNC_INTERVAL]_vars

\* C9 (as amended): a check within the TTL of the last probe requests nothing
\* and returns the verdict of that probe; a check after it probes again,
\* records the time, returns what the collector answers, and has sent the
\* collector's test URL one GET from check_gateway_pi and, when the Database
\* Pi did not answer check_internet, one more from check_internet.
C9_ConnectivityCached ==
    [][(api'.op = "check_all_connectivity" /\ now' = now) =>
          IF now - network.last_internet_check < CONNECTIVITY_TTL
          THEN /\ obs'.requested = <<>>
               /\ obs'.gateway_pi = network.gateway_pi_available
               /\ network' = network
          ELSE /\ CountOf(obs'.requested, "gw")
                      = (IF api'.batch[1].db THEN 1 ELSE 2)
               /\ obs'.gateway_pi = api'.batch[1].gw
               /\ network'.gateway_pi_available = api'.batch[1].gw
               /\ network'.last_internet_check = now]_vars

\* C9 as stated: a check after the TTL sends the collector exactly one request.
C9_ExactlyOneProbe ==
    [][(api'.op = "check_all_connectivity" /\ now' = now) =>
          IF now - network.last_internet_check < CONNECTIVITY_TTL
          THEN obs'.requested = <<>>
          ELSE CountOf(obs'.requested, "gw") = 1]_vars

\* A check after the TTL that found the collector up, a TTL after one that
\* found it down.
C9_ProbedAfterExpiry ==
    /\ api.op = "check_all_connectivity"
    /\ obs.fresh
    /\ obs.gateway_pi
    /\ CountOf(obs.requested, "gw") = 1
    /\ network.last_internet_check = now
    /\ now >= T0 + CONNECTIVITY_TTL

\* C10: a pass whose assignment check finds the device unassigned writes no
\* command to the serial link, produces no reading, sends nothing, and leaves
\* the queue as it was.
C10_UnassignedSuppressed ==
    [][(CycleStep /\ ~obs'.assigned) =>
          /\ obs'.writes = 0
          /\ obs'.data = <<>>
          /\ obs'.direct = "none"
          /\ obs'.drained = <<>>
          /\ collector' = collector
          /\ file' = file]_vars

\* A pass of an unassigned device with the collector reachable and a queue
\* waiting.
C10_UnassignedPass ==
    /\ controller.cycles_completed > 0
    /\ ~obs.assigned
    /\ obs.gateway_pi
    /\ file # <<>>

\* The assignment check of this pass asked the service and was answered.
CheckAnswered == obs'.queried /\ sensor'.last_assignment_check = now'

\* The device is unassigned with an empty queue, and the service holds it as
\* assigned.
AssignedButNotSeen ==
    service = "assigned" /\ ~sensor.is_assigned /\ file = <<>>

OnlyEntryAccepted ==
    /\ CycleStep
    /\ Len(file) = 1
    /\ obs'.drained # <<>>
    /\ Accepted(obs'.drained[1].status)

TenthAt(frame, a) ==
    [whole |-> (256 * frame[a + 1] + frame[a + 2]) \div 10,
     tenths |-> (256 * frame[a + 1] + frame[a + 2]) % 10]

\* A step that is one call of read_sensor_data.
PollStep == cycle_no' = cycle_no + 1 /\ api'.op = "none"

\* C13: a call of read_sensor_data returns a reading if and only if the
\* response it assembled has exactly RESPONSE_LENGTH bytes and its last two
\* bytes are the checksum of the bytes before them; any other response, and a
\* call that received none, returns no reading.
C13_ReadingIffFrameValid ==
    [][PollStep =>
          ((wire'.reading # <<>>)
              <=> (Len(wire'.frame) = RESPONSE_LENGTH /\ crc_matches(wire'.frame)))]_vars
\* A response of full length with a wrong trailer was received and no
\* reading came of it.
C13_BadTrailerRejected ==
    /\ Len(wire.frame) = RESPONSE_LENGTH
    /\ ~crc_matches(wire.frame)
    /\ wire.reading = <<>>

\* C14: the checksum function applied to 01 03 00 00 00 07 gives the two
\* bytes 04 08: whenever the poll command has been written, its last two
\* bytes are the checksum of its first six.
C14_CommandTrailerIsChecksum ==
    wire.command # <<>> =>
        /\ slice(wire.command, 0, 6) = <<1, 3, 0, 0, 0, 7>>
        /\ crc16_modbus(slice(wire.command, 0, 6)) = <<4, 8>>
        /\ crc16_modbus(slice(wire.command, 0, 6)) = slice(wire.command, 6, 8)
C14_CommandWritten == wire.command = MODBUS_COMMAND /\ Len(wire.command) = 8

\* C15: the measurements of a reading are, in the order moisture,
\* temperature, conductivity, pH, nitrogen, phosphorus, potassium, the
\* big-endian unsigned 16-bit values at byte offsets 3, 5, 7, 9, 11, 13, 15 of
\* its frame scaled by one tenth; 01 F4 at offset 3 gives moisture 50.0 and
\* 00 FA at offset 5 gives temperature 25.0.
C15_MeasurementsDecoded ==
    wire.reading # <<>> =>
        /\ wire.reading[1] = [moisture |-> TenthAt(wire.frame, 3),
                              temperature |-> TenthAt(wire.frame, 5),
                              conductivity |-> TenthAt(wire.frame, 7),
                              ph |-> TenthAt(wire.frame, 9),
                              nitrogen |-> TenthAt(wire.frame, 11),
                              phosphorus |-> TenthAt(wire.frame, 13),
                              potassium |-> TenthAt(wire.frame, 15)]
        /\ slice(wire.frame, 3, 5) = <<1, 244>> =>
               wire.reading[1].moisture = [whole |-> 50, tenths |-> 0]
        /\ slice(wire.frame, 5, 7) = <<0, 250>> =>
               wire.reading[1].temperature = [whole |-> 25, tenths |-> 0]
C15_ExampleDecoded ==
    /\ wire.reading # <<>>
    /\ slice(wire.frame, 3, 7) = <<1, 244, 0, 250>>
    /\ wire.reading[1].moisture = [whole |-> 50, tenths |-> 0]
    /\ wire.reading[1].temperature = [whole |-> 25, tenths |-> 0]

\* A step that is one call of check_assignment_status which asked the
\* service, and the answers the call got.
CheckAsked ==
    /\ CycleStep
    /\ api'.op = "check_assignment_status"
    /\ api'.batch # <<NoAnswer>>
CheckFailed(ans) == ans.gw # "200" /\ ans.db \notin {"200", "404"}
AssignmentKept ==
    /\ sensor'.is_assigned = sensor.is_assigned
    /\ sensor'.assigned_farm_id = sensor.assigned_farm_id
    /\ sensor'.assigned_zone_code = sensor.assigned_zone_code

\* C16: an assignment check that fails (the Gateway Pi does not answer 200
\* and the Database Pi, asked after it, answers neither 200 nor 404) leaves
\* the assigned flag and the farm and zone identifiers as they were, and
\* returns the flag; a check that ends with the 404 of the Database Pi leaves
\* the device unassigned.
C16_FailedCheckKeepsAssignment ==
    [][CheckAsked =>
          /\ CheckFailed(api'.batch[1]) => AssignmentKept /\ api'.ok = sensor.is_assigned
          /\ (api'.batch[1].gw # "200" /\ api'.batch[1].db = "404") =>
                 ~sensor'.is_assigned /\ ~api'.ok]_vars
\* An assigned device whose check timed out is still assigned.
C16_TimedOutStillAssigned ==
    /\ api.op = "check_assignment_status"
    /\ api.batch # <<NoAnswer>>
    /\ api.batch[1].db = "Timeout"
    /\ sensor.is_assigned
    /\ sensor.assigned_farm_id = "F1"

\* C17: when the save of a cycle fails on storage, the call returns False
\* without raising: the file is as it was before the cycle (the entries
\* queued earlier are unchanged and the reading of the cycle is not among
\* them), the pass is completed and counted, and the loop is left running.
C17_FailedSaveLosesOneReading ==
    [][(CycleStep /\ obs'.saved = "fail") =>
          /\ file' = file
          /\ obs'.data[1].timestamp \notin Timestamps(file')
          /\ controller'.cycles_completed = controller.cycles_completed + 1
          /\ controller'.data_points_collected = controller.data_points_collected + 1
          /\ controller'.running = controller.running
          /\ phase' = "loop"]_vars
\* The save failed with entries in the queue, and the loop is running.
C17_SaveFailedLoopRunning ==
    /\ obs.saved = "fail"
    /\ file # <<>>
    /\ controller.running
    /\ phase = "loop"

\* A signal has been received, and the passes that are complete once the
\* pass in progress at the signal (if any) is.
Signalled == api.op = "signal_handler"
PassesDue == api.count + (IF api.batch = <<"cycle">> THEN 1 ELSE 0)
Stopped == phase = "stopped" /\ sensor.serial_conn # "open"

\* C18: once a signal is received, the only pass that runs is the one in
\* progress at the signal, no pass is started afterwards, and eventually the
\* loop has ended with that pass complete and the serial link closed.
C18_SignalEndsLoop ==
    /\ [](Signalled =>
              /\ controller.cycles_completed <= PassesDue
              /\ phase = "cycle" => controller.cycles_completed < PassesDue)
    /\ Signalled ~> (Stopped /\ controller.cycles_completed = PassesDue)
\* The signal came during a pass; the pass was completed, the loop has ended
\* and the link that was open is closed.
C18_StoppedAfterPass ==
    /\ Signalled
    /\ api.batch = <<"cycle">>
    /\ controller.cycles_completed = api.count + 1
    /\ phase = "stopped"
    /\ sensor.serial_conn = "closed"

\* C19: the queue file is the same, entry for entry and in the same order,
\* after the loop has ended and shutdown has run, and after a new process
\* has built its objects.
C19_QueueSurvivesRestart ==
    [][(phase' # phase) =>
          /\ file' = file
          /\ load_batch(file', MAX_OFFLINE_RECORDS, "ok")
                 = load_batch(file, MAX_OFFLINE_RECORDS, "ok")]_vars
\* A new process has started on a queue of several entries that an earlier
\* one left.
C19_RestartedOnQueue ==
    /\ boots > 1
    /\ phase = "loop"
    /\ controller.cycles_completed = 0
    /\ Len(file) > 1

QueueDelivered == file = <<>> /\ Timestamps(api.batch) \subseteq collector

WithoutOldest(f, n) == SubSeq(f, (IF n < Len(f) THEN n ELSE Len(f)) + 1, Len(f))

PortStep == api'.op = "read_sensor_data" /\ cycle_no' = cycle_no + 1
Wrote(call) == call.op = "read_sensor_data" /\ call.batch # <<>>
Received(call) ==
    Len(IF Len(call.batch[1].first) < RESPONSE_LENGTH
        THEN call.batch[1].first \o call.batch[1].second
        ELSE call.batch[1].first)

\* C23: a call of read_sensor_data reads the port at most twice; it reads a
\* second time only when the first read returned fewer than RESPONSE_LENGTH
\* bytes, and when the response is still shorter than RESPONSE_LENGTH after
\* the second read it returns no reading and keeps the port it has.
C23_AtMostTwoReads ==
    [][(PortStep /\ Wrote(api')) =>
          /\ api'.count <= 2
          /\ api'.count = 2 => Len(api'.batch[1].first) < RESPONSE_LENGTH
          /\ (api'.count = 2 /\ api'.io = "none" /\ Received(api') < RESPONSE_LENGTH) =>
                 /\ ~api'.ok
                 /\ wire'.reading = <<>>
                 /\ sensor'.serial_conn = "open"]_vars
\* A call whose two reads left the response one byte short.
C23_StillShortAfterSecondRead ==
    /\ Wrote(api)
    /\ api.io = "none"
    /\ api.count = 2
    /\ Received(api) = RESPONSE_LENGTH - 1
    /\ ~api.ok
    /\ sensor.serial_conn = "open"

\* The exchange of the call raised a SerialException.
PortFault(call) == Wrote(call) /\ call.io # "none"

\* C24: a call of read_sensor_data in which the write or a read raises a
\* SerialException returns no reading and leaves the object without a port;
\* a call that finds the object without a port and the device assigned opens
\* the port before it writes, and writes nothing when it cannot open it; a
\* call that gives up on the length or the checksum of the response keeps
\* the port open.
C24_SerialErrorDisconnects ==
    /\ [][(PortStep /\ PortFault(api')) =>
             /\ ~api'.ok
             /\ wire'.reading = <<>>
             /\ sensor'.serial_conn = None]_vars
    /\ [][(PortStep /\ sensor.serial_conn = None) =>
             /\ sensor'.is_assigned => api'.arg >= 1
             /\ Wrote(api') => api'.arg >= 1
             /\ (api'.arg >= 1 /\ ~Wrote(api')) => sensor'.serial_conn = None]_vars
    /\ [][(PortStep /\ Wrote(api') /\ api'.io = "none" /\ ~api'.ok) =>
             sensor'.serial_conn = "open"]_vars
\* The call after one that a SerialException ended has opened the port and
\* returned a reading.
C24_ReconnectedAfterError ==
    /\ obs.op = "read_sensor_data"
    /\ PortFault(obs)
    /\ Wrote(api)
    /\ api.arg >= 1
    /\ api.ok
    /\ sensor.serial_conn = "open"

\* The call tried to open the port and could not.
OpenFailed(call) == call.op = "read_sensor_data" /\ call.arg >= 1 /\ ~Wrote(call)

C26_CloseIdempotent ==
    /\ [][api'.op = "close" =>
             /\ sensor' = [sensor EXCEPT !.serial_conn =
                                IF @ = "open" THEN "closed" ELSE @]
             /\ sensor'.serial_conn # "open"]_vars
    /\ [][(api'.op = "close" /\ api.op = "close") => sensor' = sensor]_vars
\* close has been called again on a port that it closed.
C26_ClosedTwice ==
    /\ api.op = "close"
    /\ api.count = MaxCloses
    /\ api.batch = <<"closed">>
    /\ sensor.serial_conn = "closed"

\* C27: a pass of the loop leaves the running flag as it found it, whatever
\* the pass met (device unassigned, no reading, send refused, save failed):
\* a reading is returned only for an assigned device, so the branch that
\* stops the collection is never taken; the flag is cleared only by the
\* signal handler, which changes nothing else.
C27_OnlySignalStopsLoop ==
    /\ [][CycleStep =>
             /\ controller'.running = controller.running
             /\ obs'.data # <<>> => sensor'.is_assigned]_vars
    /\ [][(controller.running /\ ~controller'.running) =>
             /\ ~CycleStep
             /\ controller' = [controller EXCEPT !.running = FALSE]
             /\ UNCHANGED <<network, sensor, file, phase, now, collector, obs>>]_vars
\* Two passes have found the device unassigned and read nothing, and the
\* loop is running.
C27_UnassignedStillRunning ==
    /\ cycle_no = MaxCycles
    /\ ~sensor.is_assigned
    /\ ~obs.assigned
    /\ obs.data = <<>>
    /\ controller.cycles_completed = MaxCycles
    /\ controller.running
    /\ phase = "loop"

\* C28: no entry of the queue that the collector has accepted is sent to it
\* again by a later drain, also when remove_synced failed in the drain that
\* delivered it.
C28_AcceptedNeverSentAgain ==
    [][CycleStep =>
          \A i \in 1..Len(obs'.drained) :
              obs'.drained[i].timestamp \notin collector]_vars

\* A 403 has stopped a drain at an entry that the collector has not accepted
\* since, and that entry.
Refused == api.op = "rejected"
RefusedAt == api.batch[1].timestamp
\* The timestamps sent by a drain before its i-th send.
SentBefore(drained, i) == {drained[j].timestamp : j \in 1..(i - 1)}

\* C29 (as amended): a 403 stops the drain at the entry it refuses like any
\* other failed send, and the entry is not removed: it stays in the queue
\* behind nothing but entries the collector accepted in that drain.  While
\* it has not been accepted it leaves the queue only when a save at capacity
\* evicts it, and no drain sends an entry behind it.
C29_RefusedEntryBlocksQueue ==
    /\ [][(CycleStep /\ RejectedIn(obs') # <<>>) =>
             /\ Len(obs'.drained) <= BATCH_SIZE
             /\ \A i \in 1..(Len(obs'.drained) - 1) : Accepted(obs'.drained[i].status)
             /\ \E k \in 1..Len(file') :
                    /\ file'[k].timestamp = RejectedIn(obs')[1].timestamp
                    /\ \A j \in 1..(k - 1) : file'[j].timestamp \in collector'
             /\ obs'.removed = "ok" => file'[1].timestamp = RejectedIn(obs')[1].timestamp]_vars
    /\ [][(CycleStep /\ Refused) =>
             /\ (RefusedAt \in Timestamps(file) /\ RefusedAt \notin Timestamps(file')) =>
                    \/ RefusedAt \in AcceptedIn(obs')
                    \/ obs'.saved = "ok" /\ Len(file) = MAX_OFFLINE_RECORDS
             /\ RefusedAt \in Timestamps(file) =>
                    \A i \in 1..Len(obs'.drained) :
                        obs'.drained[i].timestamp > RefusedAt =>
                            /\ RefusedAt \in SentBefore(obs'.drained, i)
                            /\ RefusedAt \in AcceptedIn(obs')]_vars
\* C29 as stated: once a 403 has stopped a drain at an entry, every later
\* drain starts by sending that entry again for as long as it is refused.
C29_EveryDrainStartsAtRefused ==
    [][(CycleStep /\ Refused /\ obs'.drained # <<>>) =>
          obs'.drained[1].timestamp = RefusedAt]_vars
\* The entry refused by one drain has been refused again by the next drain,
\* which sent nothing else, and it is still the head of the queue.
C29_RefusedTwice ==
    /\ Refused
    /\ cycle_no >= 2
    /\ obs.drained = <<[timestamp |-> RefusedAt, status |-> "403"]>>
    /\ file # <<>>
    /\ file[1].timestamp = RefusedAt
    /\ Len(file) > 1

\* A step that is one call of check_assignment_status on its own.
CheckStep == CycleStep /\ api'.op = "check_assignment_status"
Asked(call) == call.op = "check_assignment_status" /\ call.batch # <<NoAnswer>>

\* C30: a call of check_assignment_status asks the service exactly when
\* ASSIGNMENT_CHECK_INTERVAL has passed since the last check that got an
\* answer; a call that does not ask returns the cached state and changes
\* nothing; an answer (200 from the gateway or the database, or 404 from the
\* database) sets the time of the last check to the time of the call, and a
\* check that got no answer leaves it, so that the next call asks again.
C30_AssignmentQueryGated ==
    /\ [][CheckStep =>
             /\ Asked(api') <=>
                    (now' - sensor.last_assignment_check >= ASSIGNMENT_CHECK_INTERVAL)
             /\ ~Asked(api') => (sensor' = sensor /\ api'.ok = sensor.is_assigned)
             /\ (Asked(api') /\ ~CheckFailed(api'.batch[1])) =>
                    sensor'.last_assignment_check = now'
             /\ (Asked(api') /\ CheckFailed(api'.batch[1])) =>
                    sensor'.last_assignment_check = sensor.last_assignment_check]_vars
    /\ [][(CheckStep /\ Asked(api) /\ CheckFailed(api.batch[1])) => Asked(api')]_vars
    /\ [][(CheckStep /\ Asked(api) /\ ~CheckFailed(api.batch[1])
                /\ now' - now < ASSIGNMENT_CHECK_INTERVAL) => ~Asked(api')]_vars
\* A check was answered that the device is not assigned, and a measurement
\* interval later a check did not ask and returned the cached state.
C30_CachedAfterAnswer ==
    /\ api.op = "check_assignment_status"
    /\ ~Asked(api)
    /\ ~api.ok
    /\ ~sensor.is_assigned
    /\ sensor.last_assignment_check = T0 + ASSIGNMENT_CHECK_INTERVAL
    /\ now = sensor.last_assignment_check + MEASUREMENT_INTERVAL

\* C31: whenever the device is held as unassigned, the farm and the zone
\* kept with the assignment are None, whatever the assignment checks were
\* answered, 404 included.
C31_UnassignedHasNoContext ==
    ~sensor.is_assigned =>
        (sensor.assigned_farm_id = None /\ sensor.assigned_zone_code = None)
====
